---- MODULE Spec2Model ----
(***************************************************************************)
(* orbcode/libtrace: configuration of the Cortex-M trace units (TPIU, ITM, *)
(* DWT) and the ITM stimulus-port writer.                                  *)
(*                                                                         *)
(* A 32-bit register or value is the set of its set bit positions, a       *)
(* subset of 0..31: bitwise OR is union, AND is intersection, a left shift *)
(* moves every position up and drops what passes bit 31.                   *)
(***************************************************************************)
EXTENDS Integers, Sequences, FiniteSets, TLC

VARIABLES reg, fifoReady, plan, pc, cur, ret, log, lastAccess, reg0, done

vars == <<reg, fifoReady, plan, pc, cur, ret, log, lastAccess, reg0, done>>

----------------------------------------------------------------------------
(* Bounds of the model *)

\* longest buffer handed to ITMWriteBuffer
MaxSize == 7

----------------------------------------------------------------------------
(* 32-bit words *)

Bit32 == 0..31

AllOnes == Bit32

\* the uint32_t a C int converts to (two's complement for a negative int)
U32(n) ==
    IF n >= 0
    THEN {i \in 0..30 : (n \div (2^i)) % 2 = 1}
    ELSE Bit32 \ {i \in 0..30 : ((-n - 1) \div (2^i)) % 2 = 1}

Shl(w, k) == {i + k : i \in w} \cap Bit32

Or(a, b) == a \cup b

And(a, b) == a \cap b

Not(a) == Bit32 \ a

B2I(b) == IF b THEN 1 ELSE 0

\* byte k (0 = least significant) of a word, as a number 0..255
ByteOf(w, k) ==
    LET b(i) == IF (8 * k + i) \in w THEN 2^i ELSE 0
    IN  b(0) + b(1) + b(2) + b(3) + b(4) + b(5) + b(6) + b(7)

\* a word from its four bytes, most significant first
Word4(b3, b2, b1, b0) ==
    Or(Or(Shl(U32(b3), 24), Shl(U32(b2), 16)), Or(Shl(U32(b1), 8), U32(b0)))

----------------------------------------------------------------------------
(* Register bit positions (CMSIS core_cmX.h names, as the headers use them) *)

CoreDebug_DEMCR_TRCENA_Pos == 24
CoreDebug_DEMCR_TRCENA_Msk == Shl(U32(1), CoreDebug_DEMCR_TRCENA_Pos)

ITM_TCR_ITMENA_Pos == 0
ITM_TCR_TSENA_Pos == 1
ITM_TCR_SYNCENA_Pos == 2
ITM_TCR_DWTENA_Pos == 3
ITM_TCR_TSPrescale_Pos == 8
ITM_TCR_GTSFREQ_Pos == 10
ITM_TCR_TraceBusID_Pos == 16
ITM_TCR_ITMENA_Msk == Shl(U32(1), ITM_TCR_ITMENA_Pos)

DWT_CTRL_CYCCNTENA_Pos == 0
DWT_CTRL_POSTPRESET_Pos == 1
DWT_CTRL_CYCTAP_Pos == 9
DWT_CTRL_SYNCTAP_Pos == 10
DWT_CTRL_PCSAMPLENA_Pos == 12
DWT_CTRL_EXCTRCENA_Pos == 16
DWT_CTRL_CPIEVTENA_Pos == 17
DWT_CTRL_EXCEVTENA_Pos == 18
DWT_CTRL_SLEEPEVTENA_Pos == 19
DWT_CTRL_LSUEVTENA_Pos == 20
DWT_CTRL_FOLDEVTENA_Pos == 21
DWT_CTRL_CYCCNTENA_Msk == Shl(U32(1), DWT_CTRL_CYCCNTENA_Pos)

DWT_FUNCTION_FUNCTION_Pos == 0
DWT_FUNCTION_FUNCTION_Msk == Shl(U32(15), DWT_FUNCTION_FUNCTION_Pos)
DWT_FUNCTION_EMITRANGE_Pos == 5

TPI_FFCR_EnFCont_Pos == 1
TPI_FFCR_EnFCont_Msk == Shl(U32(1), TPI_FFCR_EnFCont_Pos)

\* 0xC5ACCE55, the lock-access key
LockKey == Word4(197, 172, 206, 85)

----------------------------------------------------------------------------
(* The register bank *)

CompRegs(i) ==
    CASE i = 0 -> [comp |-> "DWT_COMP0", mask |-> "DWT_MASK0", function |-> "DWT_FUNCTION0"]
      [] i = 1 -> [comp |-> "DWT_COMP1", mask |-> "DWT_MASK1", function |-> "DWT_FUNCTION1"]
      [] i = 2 -> [comp |-> "DWT_COMP2", mask |-> "DWT_MASK2", function |-> "DWT_FUNCTION2"]
      [] i = 3 -> [comp |-> "DWT_COMP3", mask |-> "DWT_MASK3", function |-> "DWT_FUNCTION3"]

ComparatorRegNames ==
    UNION {{CompRegs(i).comp, CompRegs(i).mask, CompRegs(i).function} : i \in 0..3}

TpiuRegNames == {"TPI_ACPR", "TPI_SPPR", "TPI_CSPSR", "TPI_FFCR"}

ItmRegNames == {"ITM_LAR", "ITM_TCR", "ITM_TER"}

DwtRegNames == {"DWT_LAR", "DWT_CTRL"}

RegNames ==
    {"DEMCR"} \cup TpiuRegNames \cup ItmRegNames \cup DwtRegNames \cup ComparatorRegNames

\* every register reads 0
ResetRegs == [r \in RegNames |-> {}]

----------------------------------------------------------------------------
(* Register accesses.  A function of the library is the sequence of        *)
(* register accesses it performs; "orr" and "bic" are the read-modify-     *)
(* writes  R |= w  and  R &= ~w.                                           *)

Write(r, w) == [kind |-> "write", r |-> r, w |-> w]

OrInto(r, w) == [kind |-> "orr", r |-> r, w |-> w]

ClearIn(r, w) == [kind |-> "bic", r |-> r, w |-> w]

ApplyAccess(rg, a) ==
    CASE a.kind = "write" -> [rg EXCEPT ![a.r] = a.w]
      [] a.kind = "orr"   -> [rg EXCEPT ![a.r] = Or(rg[a.r], a.w)]
      [] a.kind = "bic"   -> [rg EXCEPT ![a.r] = And(rg[a.r], Not(a.w))]

RECURSIVE ApplyAccesses(_, _)
ApplyAccesses(rg, as) ==
    IF as = <<>> THEN rg ELSE ApplyAccesses(ApplyAccess(rg, Head(as)), Tail(as))

----------------------------------------------------------------------------
(* TPIU: tpiu.h *)

\* variant: the port width used as the shift count, 1 << TracePortWidth
TpiuSetupAccesses_ShiftByWidth(options) ==
    << OrInto("DEMCR", CoreDebug_DEMCR_TRCENA_Msk),
       Write("TPI_ACPR", U32(options.SwoPrescaler - 1)),
       Write("TPI_SPPR", U32(options.Protocol)),
       Write("TPI_CSPSR", Shl(U32(1), options.TracePortWidth)),
       IF options.FormattingEnabled
       THEN OrInto("TPI_FFCR", TPI_FFCR_EnFCont_Msk)
       ELSE ClearIn("TPI_FFCR", TPI_FFCR_EnFCont_Msk) >>

\* variant: the framing-control register stored whole, not read and modified
TpiuSetupAccesses_StoresFfcr(options) ==
    << OrInto("DEMCR", CoreDebug_DEMCR_TRCENA_Msk),
       Write("TPI_ACPR", U32(options.SwoPrescaler - 1)),
       Write("TPI_SPPR", U32(options.Protocol)),
       Write("TPI_CSPSR", Shl(U32(1), options.TracePortWidth - 1)),
       IF options.FormattingEnabled
       THEN Write("TPI_FFCR", TPI_FFCR_EnFCont_Msk)
       ELSE Write("TPI_FFCR", {}) >>

\* variant: the port width merged into the register, TPI->CSPSR |= 1 << (width - 1)
TpiuSetupAccesses_MergesCspsr(options) ==
    << OrInto("DEMCR", CoreDebug_DEMCR_TRCENA_Msk),
       Write("TPI_ACPR", U32(options.SwoPrescaler - 1)),
       Write("TPI_SPPR", U32(options.Protocol)),
       OrInto("TPI_CSPSR", Shl(U32(1), options.TracePortWidth - 1)),
       IF options.FormattingEnabled
       THEN OrInto("TPI_FFCR", TPI_FFCR_EnFCont_Msk)
       ELSE ClearIn("TPI_FFCR", TPI_FFCR_EnFCont_Msk) >>

TpiuSetupAccesses(options) ==
    << OrInto("DEMCR", CoreDebug_DEMCR_TRCENA_Msk),
       Write("TPI_ACPR", U32(options.SwoPrescaler - 1)),
       Write("TPI_SPPR", U32(options.Protocol)),
       Write("TPI_CSPSR", Shl(U32(1), options.TracePortWidth - 1)),
       IF options.FormattingEnabled
       THEN OrInto("TPI_FFCR", TPI_FFCR_EnFCont_Msk)
       ELSE ClearIn("TPI_FFCR", TPI_FFCR_EnFCont_Msk) >>

----------------------------------------------------------------------------
(* ITM: itm.h *)

\* the word ITMSetup builds in tcr
ITMControlWord(options) ==
    LET t1 == Or({}, Shl(U32(options.TraceBusID), ITM_TCR_TraceBusID_Pos))
        t2 == Or(t1, Shl(U32(options.GlobalTimestampFrequency), ITM_TCR_GTSFREQ_Pos))
        t3 == Or(t2, Shl(U32(options.LocalTimestampPrescaler), ITM_TCR_TSPrescale_Pos))
        t4 == Or(t3, Shl(U32(B2I(options.ForwardDWT)), ITM_TCR_DWTENA_Pos))
        t5 == Or(t4, Shl(U32(B2I(options.EnableSyncPacket)), ITM_TCR_SYNCENA_Pos))
        t6 == Or(t5, Shl(U32(B2I(options.EnableLocalTimestamp)), ITM_TCR_TSENA_Pos))
    IN  Or(t6, ITM_TCR_ITMENA_Msk)

\* the value ITMSetup stores in the port-enable register: 0xFFFFFFFF,
\* whatever options.EnabledStimulusPorts holds
ITMEnabledPortsWord(options) == AllOnes

\* variant: the latch stored, CoreDebug->DEMCR = TRCENA, the other bits lost
ITMSetupAccesses_StoresDemcr(options) ==
    << Write("DEMCR", CoreDebug_DEMCR_TRCENA_Msk),
       Write("ITM_LAR", LockKey),
       Write("ITM_TCR", ITMControlWord(options)),
       Write("ITM_TER", ITMEnabledPortsWord(options)) >>

\* variant: the control word written before the unlock
ITMSetupAccesses_ControlBeforeUnlock(options) ==
    << OrInto("DEMCR", CoreDebug_DEMCR_TRCENA_Msk),
       Write("ITM_TCR", ITMControlWord(options)),
       Write("ITM_LAR", LockKey),
       Write("ITM_TER", ITMEnabledPortsWord(options)) >>

ITMSetupAccesses(options) ==
    << OrInto("DEMCR", CoreDebug_DEMCR_TRCENA_Msk),
       Write("ITM_LAR", LockKey),
       Write("ITM_TCR", ITMControlWord(options)),
       Write("ITM_TER", ITMEnabledPortsWord(options)) >>

\* variant: the port number itself used as the mask, not 1 << port
ITMIsPortEnabled_PortAsMask(rg, port) ==
    /\ And(rg["ITM_TCR"], ITM_TCR_ITMENA_Msk) # {}
    /\ And(rg["ITM_TER"], U32(port)) # {}

ITMIsPortEnabled(rg, port) ==
    /\ And(rg["ITM_TCR"], ITM_TCR_ITMENA_Msk) # {}
    /\ And(rg["ITM_TER"], Shl(U32(1), port)) # {}

\* what a read of ITM->PORT[port].u32 returns: FIFOREADY in bit 0
PortStatus(port) == IF fifoReady[port] THEN U32(1) ELSE {}

\* memcpy(&v, buf8, n) on the little-endian Cortex-M: byte j of the buffer
\* from offset off lands in bits 8j..8j+7 of v
LoadLE(buf, off, n) ==
    UNION {Shl(U32(buf[off + j + 1]), 8 * j) : j \in 0..(n - 1)}

\* a store through the u8 / u16 / u32 view of a port register
Narrow(v, width) == And(v, 0..(width - 1))

\* variant: the 32-bit loop runs while(size > 4)
BufferLoop_StrictFour(loop, size) ==
    LET from8  == IF size > 0 THEN 8 ELSE 0
        from16 == IF size >= 2 THEN 16 ELSE from8
        from32 == IF size > 4 THEN 32 ELSE from16
    IN  CASE loop = 32 -> from32
          [] loop = 16 -> from16
          [] loop = 8  -> from8

\* the loop of ITMWriteBuffer that runs next, entered at the head of the
\* loop of the given width with size bytes left; 0 when the function returns
BufferLoop(loop, size) ==
    LET from8  == IF size > 0 THEN 8 ELSE 0
        from16 == IF size >= 2 THEN 16 ELSE from8
        from32 == IF size >= 4 THEN 32 ELSE from16
    IN  CASE loop = 32 -> from32
          [] loop = 16 -> from16
          [] loop = 8  -> from8

----------------------------------------------------------------------------
(* DWT: dwt.h *)

\* variant: the load/store flag shifted to the position of the folded-instruction flag
DWTControlWord_LsuAtFold(options) ==
    LET c1 == Or({}, Shl(U32(B2I(options.FoldedInstructionCounterEvent)), DWT_CTRL_FOLDEVTENA_Pos))
        c2 == Or(c1, Shl(U32(B2I(options.LSUCounterEvent)), DWT_CTRL_FOLDEVTENA_Pos))
        c3 == Or(c2, Shl(U32(B2I(options.SleepCounterEvent)), DWT_CTRL_SLEEPEVTENA_Pos))
        c4 == Or(c3, Shl(U32(B2I(options.ExceptionOverheadCounterEvent)), DWT_CTRL_EXCEVTENA_Pos))
        c5 == Or(c4, Shl(U32(B2I(options.CPICounterEvent)), DWT_CTRL_CPIEVTENA_Pos))
        c6 == Or(c5, Shl(U32(B2I(options.ExceptionTrace)), DWT_CTRL_EXCTRCENA_Pos))
        c7 == Or(c6, Shl(U32(B2I(options.PCSampling)), DWT_CTRL_PCSAMPLENA_Pos))
        c8 == Or(c7, Shl(And(U32(options.SyncTap), U32(3)), DWT_CTRL_SYNCTAP_Pos))
        c9 == Or(c8, Shl(And(U32(options.CycleTap), U32(3)), DWT_CTRL_CYCTAP_Pos))
        c10 == Or(c9, Shl(U32(options.SamplingPrescaler - 1), DWT_CTRL_POSTPRESET_Pos))
    IN  Or(c10, DWT_CTRL_CYCCNTENA_Msk)

\* variant: the prescaler stored as given, without the minus one
DWTControlWord_RawPrescaler(options) ==
    LET c1 == Or({}, Shl(U32(B2I(options.FoldedInstructionCounterEvent)), DWT_CTRL_FOLDEVTENA_Pos))
        c2 == Or(c1, Shl(U32(B2I(options.LSUCounterEvent)), DWT_CTRL_LSUEVTENA_Pos))
        c3 == Or(c2, Shl(U32(B2I(options.SleepCounterEvent)), DWT_CTRL_SLEEPEVTENA_Pos))
        c4 == Or(c3, Shl(U32(B2I(options.ExceptionOverheadCounterEvent)), DWT_CTRL_EXCEVTENA_Pos))
        c5 == Or(c4, Shl(U32(B2I(options.CPICounterEvent)), DWT_CTRL_CPIEVTENA_Pos))
        c6 == Or(c5, Shl(U32(B2I(options.ExceptionTrace)), DWT_CTRL_EXCTRCENA_Pos))
        c7 == Or(c6, Shl(U32(B2I(options.PCSampling)), DWT_CTRL_PCSAMPLENA_Pos))
        c8 == Or(c7, Shl(And(U32(options.SyncTap), U32(3)), DWT_CTRL_SYNCTAP_Pos))
        c9 == Or(c8, Shl(And(U32(options.CycleTap), U32(3)), DWT_CTRL_CYCTAP_Pos))
        c10 == Or(c9, Shl(U32(options.SamplingPrescaler), DWT_CTRL_POSTPRESET_Pos))
    IN  Or(c10, DWT_CTRL_CYCCNTENA_Msk)

\* the word DWTSetup builds in ctrl
DWTControlWord(options) ==
    LET c1 == Or({}, Shl(U32(B2I(options.FoldedInstructionCounterEvent)), DWT_CTRL_FOLDEVTENA_Pos))
        c2 == Or(c1, Shl(U32(B2I(options.LSUCounterEvent)), DWT_CTRL_LSUEVTENA_Pos))
        c3 == Or(c2, Shl(U32(B2I(options.SleepCounterEvent)), DWT_CTRL_SLEEPEVTENA_Pos))
        c4 == Or(c3, Shl(U32(B2I(options.ExceptionOverheadCounterEvent)), DWT_CTRL_EXCEVTENA_Pos))
        c5 == Or(c4, Shl(U32(B2I(options.CPICounterEvent)), DWT_CTRL_CPIEVTENA_Pos))
        c6 == Or(c5, Shl(U32(B2I(options.ExceptionTrace)), DWT_CTRL_EXCTRCENA_Pos))
        c7 == Or(c6, Shl(U32(B2I(options.PCSampling)), DWT_CTRL_PCSAMPLENA_Pos))
        c8 == Or(c7, Shl(And(U32(options.SyncTap), U32(3)), DWT_CTRL_SYNCTAP_Pos))
        c9 == Or(c8, Shl(And(U32(options.CycleTap), U32(3)), DWT_CTRL_CYCTAP_Pos))
        c10 == Or(c9, Shl(U32(options.SamplingPrescaler - 1), DWT_CTRL_POSTPRESET_Pos))
    IN  Or(c10, DWT_CTRL_CYCCNTENA_Msk)

\* variant: the control word merged into the register, DWT->CTRL |= ctrl
DWTSetupAccesses_MergeCtrl(options) ==
    << OrInto("DEMCR", CoreDebug_DEMCR_TRCENA_Msk),
       Write("DWT_LAR", LockKey),
       OrInto("DWT_CTRL", DWTControlWord(options)) >>

DWTSetupAccesses(options) ==
    << OrInto("DEMCR", CoreDebug_DEMCR_TRCENA_Msk),
       Write("DWT_LAR", LockKey),
       Write("DWT_CTRL", DWTControlWord(options)) >>

\* funcRaw of DWTEnableComparator
ComparatorFunctionWord(emitRange, function) ==
    Or(And(Shl(U32(function), DWT_FUNCTION_FUNCTION_Pos), DWT_FUNCTION_FUNCTION_Msk),
       Shl(U32(B2I(emitRange)), DWT_FUNCTION_EMITRANGE_Pos))

\* variant: the comparator number reduced modulo 4, a computed register offset
DWTEnableComparatorAccesses_Modulo(comparator, address, ignoreBits, emitRange, function) ==
    << Write(CompRegs(comparator % 4).comp, address),
       Write(CompRegs(comparator % 4).mask, U32(ignoreBits)),
       Write(CompRegs(comparator % 4).function, ComparatorFunctionWord(emitRange, function)) >>

\* the switch of DWTEnableComparator: cases 0..3, no default
DWTEnableComparatorAccesses(comparator, address, ignoreBits, emitRange, function) ==
    IF comparator \in 0..3
    THEN << Write(CompRegs(comparator).comp, address),
            Write(CompRegs(comparator).mask, U32(ignoreBits)),
            Write(CompRegs(comparator).function, ComparatorFunctionWord(emitRange, function)) >>
    ELSE << >>

\* variant: a disable that resets the whole slot
DWTDisableComparatorAccesses_ClearsSlot(comparator) ==
    IF comparator \in 0..3
    THEN << Write(CompRegs(comparator).comp, {}),
            Write(CompRegs(comparator).mask, {}),
            Write(CompRegs(comparator).function, {}) >>
    ELSE << >>

\* the switch of DWTDisableComparator: cases 0..3, no default
DWTDisableComparatorAccesses(comparator) ==
    IF comparator \in 0..3
    THEN << Write(CompRegs(comparator).function, {}) >>
    ELSE << >>

----------------------------------------------------------------------------
(* The caller and the program state.                                       *)
(*   plan        the calls the application still makes, in order           *)
(*   done        the calls that returned, each with the registers it found *)
(*   pc, cur     position and locals of the call that is running           *)
(*   reg0        the registers when the running (or last) call started     *)
(*   log         the data writes to stimulus-port registers, in order      *)
(*   lastAccess  the running call's latest access to a port register       *)
(*   ret         what ITMIsPortEnabled returned, once it has               *)

Call(fn, args) == [fn |-> fn, args |-> args]

NoCall == [fn |-> "none", port |-> 0, loop |-> 0, v |-> {}, buf |-> <<>>, off |-> 0, size |-> 0]

NoAccess == [kind |-> "none", port |-> 0, value |-> {}]

Pending(fn) == pc = "idle" /\ plan # <<>> /\ Head(plan).fn = fn

Enter ==
    /\ reg0' = reg
    /\ lastAccess' = NoAccess

\* the running call returns to the caller
Return ==
    /\ pc' = "idle"
    /\ cur' = NoCall
    /\ plan' = Tail(plan)
    /\ done' = Append(done, [fn |-> Head(plan).fn, args |-> Head(plan).args, before |-> reg0'])

\* a function that only performs register accesses, start to return
Perform(accesses) ==
    /\ Enter
    /\ reg' = ApplyAccesses(reg, accesses)
    /\ Return
    /\ UNCHANGED <<fifoReady, ret, log>>

TpiuSetup ==
    /\ Pending("TpiuSetup")
    /\ Perform(TpiuSetupAccesses(Head(plan).args))

ITMSetup ==
    /\ Pending("ITMSetup")
    /\ Perform(ITMSetupAccesses(Head(plan).args))

DWTSetup ==
    /\ Pending("DWTSetup")
    /\ Perform(DWTSetupAccesses(Head(plan).args))

DWTEnableComparator ==
    /\ Pending("DWTEnableComparator")
    /\ LET a == Head(plan).args
       IN  Perform(DWTEnableComparatorAccesses(a.comparator, a.address, a.ignoreBits,
                                               a.emitRange, a.function))

DWTDisableComparator ==
    /\ Pending("DWTDisableComparator")
    /\ Perform(DWTDisableComparatorAccesses(Head(plan).args.comparator))

ITMIsPortEnabledCall ==
    /\ Pending("ITMIsPortEnabled")
    /\ Enter
    /\ ret' = <<ITMIsPortEnabled(reg, Head(plan).args.port)>>
    /\ Return
    /\ UNCHANGED <<reg, fifoReady, log>>

\* variant: no early return, the busy-wait is entered on a disabled port too
ScalarEntry_NoEnableCheck(fn, width) ==
    /\ Pending(fn)
    /\ Enter
    /\ LET a == Head(plan).args
       IN  /\ pc' = "poll"
           /\ cur' = [NoCall EXCEPT !.fn = fn, !.port = a.port, !.loop = width, !.v = a.value]
           /\ UNCHANGED <<plan, done>>
    /\ UNCHANGED <<reg, fifoReady, ret, log>>

\* entry of ITMWrite8 / ITMWrite16 / ITMWrite32: the enable check, then
\* either the early return or the busy-wait loop
ScalarEntry(fn, width) ==
    /\ Pending(fn)
    /\ Enter
    /\ LET a == Head(plan).args
       IN  IF ~ITMIsPortEnabled(reg, a.port)
           THEN Return
           ELSE /\ pc' = "poll"
                /\ cur' = [NoCall EXCEPT !.fn = fn, !.port = a.port, !.loop = width, !.v = a.value]
                /\ UNCHANGED <<plan, done>>
    /\ UNCHANGED <<reg, fifoReady, ret, log>>

ITMWrite8 == ScalarEntry("ITMWrite8", 8)

ITMWrite16 == ScalarEntry("ITMWrite16", 16)

ITMWrite32 == ScalarEntry("ITMWrite32", 32)

\* the locals of ITMWriteBuffer at the head of a loop iteration that runs:
\* the 32- and 16-bit loops memcpy the chunk before they wait
BufferIteration(c, loop) ==
    [c EXCEPT !.loop = loop,
              !.v = IF loop = 8 THEN {} ELSE LoadLE(c.buf, c.off, loop \div 8)]

\* entry of ITMWriteBuffer: the enable check, then the first loop that runs
ITMWriteBuffer ==
    /\ Pending("ITMWriteBuffer")
    /\ Enter
    /\ LET a == Head(plan).args
           c == [NoCall EXCEPT !.fn = "ITMWriteBuffer", !.port = a.port,
                               !.buf = a.buffer, !.size = a.size]
           loop == BufferLoop(32, a.size)
       IN  IF ~ITMIsPortEnabled(reg, a.port) \/ loop = 0
           THEN Return
           ELSE /\ pc' = "poll"
                /\ cur' = BufferIteration(c, loop)
                /\ UNCHANGED <<plan, done>>
    /\ UNCHANGED <<reg, fifoReady, ret, log>>

\* variant: a wait that gives up, the store follows the first read whatever it returned
PollStatus_NoWait ==
    /\ pc = "poll"
    /\ LET s == PortStatus(cur.port)
       IN  /\ lastAccess' = [kind |-> "read", port |-> cur.port, value |-> s]
           /\ pc' = "store"
    /\ UNCHANGED <<reg, fifoReady, plan, cur, ret, log, reg0, done>>

\* variant: the loop condition inverted, while(ITM->PORT[port].u32 != 0UL)
PollStatus_Inverted ==
    /\ pc = "poll"
    /\ LET s == PortStatus(cur.port)
       IN  /\ lastAccess' = [kind |-> "read", port |-> cur.port, value |-> s]
           /\ pc' = IF s # {} THEN "poll" ELSE "store"
    /\ UNCHANGED <<reg, fifoReady, plan, cur, ret, log, reg0, done>>

\* variant: the enable check repeated in the wait, which gives up on a
\* port found disabled
PollStatus_Rechecks ==
    /\ pc = "poll"
    /\ UNCHANGED <<reg, fifoReady, ret, log, reg0>>
    /\ IF ~ITMIsPortEnabled(reg, cur.port)
       THEN /\ lastAccess' = lastAccess
            /\ Return
       ELSE LET s == PortStatus(cur.port)
            IN  /\ lastAccess' = [kind |-> "read", port |-> cur.port, value |-> s]
                /\ pc' = IF s = {} THEN "poll" ELSE "store"
                /\ UNCHANGED <<plan, cur, done>>

\* one evaluation of  while(ITM->PORT[port].u32 == 0UL)
PollStatus ==
    /\ pc = "poll"
    /\ LET s == PortStatus(cur.port)
       IN  /\ lastAccess' = [kind |-> "read", port |-> cur.port, value |-> s]
           /\ pc' = IF s = {} THEN "poll" ELSE "store"
    /\ UNCHANGED <<reg, fifoReady, plan, cur, ret, log, reg0, done>>

\* the store to the port register; the FIFO may be full after it
DataWrite(port, width, value) ==
    /\ log' = Append(log, [port |-> port, width |-> width, value |-> Narrow(value, width)])
    /\ lastAccess' = [kind |-> "write", port |-> port, value |-> Narrow(value, width)]
    /\ fifoReady' \in {fifoReady, [fifoReady EXCEPT ![port] = FALSE]}

\* ITM->PORT[port].u8 / u16 / u32 = value;  and the return
StoreScalar ==
    /\ pc = "store"
    /\ cur.fn \in {"ITMWrite8", "ITMWrite16", "ITMWrite32"}
    /\ UNCHANGED <<reg, ret, reg0>>
    /\ DataWrite(cur.port, cur.loop, cur.v)
    /\ Return

\* the store of one chunk of ITMWriteBuffer, the pointer and size update,
\* and the next loop test
StoreChunk ==
    /\ pc = "store"
    /\ cur.fn = "ITMWriteBuffer"
    /\ UNCHANGED <<reg, ret, reg0>>
    /\ LET n == cur.loop \div 8
           value == IF cur.loop = 8 THEN U32(cur.buf[cur.off + 1]) ELSE cur.v
           c == [cur EXCEPT !.off = cur.off + n, !.size = cur.size - n]
           loop == BufferLoop(cur.loop, c.size)
       IN  /\ DataWrite(cur.port, cur.loop, value)
           /\ IF loop = 0
              THEN Return
              ELSE /\ pc' = "poll"
                   /\ cur' = BufferIteration(c, loop)
                   /\ UNCHANGED <<plan, done>>

\* the hardware: the trace sink takes data and the FIFO of a port has room again
FifoDrain ==
    /\ \E p \in DOMAIN fifoReady :
          /\ ~fifoReady[p]
          /\ fifoReady' = [fifoReady EXCEPT ![p] = TRUE]
    /\ UNCHANGED <<reg, plan, pc, cur, ret, log, lastAccess, reg0, done>>

----------------------------------------------------------------------------
(* Inputs *)

\* the stimulus ports the writer is exercised on
Ports == {0, 5, 31}

\* byte values of buffers: 0x12 and 0xEF
BufferBytes == {18, 239}

RECURSIVE SeqsOfLength(_, _)
SeqsOfLength(S, n) ==
    IF n = 0 THEN {<<>>}
    ELSE {Append(q, x) : q \in SeqsOfLength(S, n - 1), x \in S}

Buffers == UNION {SeqsOfLength(BufferBytes, n) : n \in 0..MaxSize}

\* 'X', 0 and 0xFF; 0xBEEF and 0; 0xDEADBEEF and 0
Values8 == {U32(88), {}, U32(255)}

Values16 == {U32(48879), {}}

Values32 == {Word4(222, 173, 190, 239), {}}

WriteCalls ==
    {Call("ITMWrite8", [port |-> p, value |-> v]) : p \in Ports, v \in Values8}
    \cup {Call("ITMWrite16", [port |-> p, value |-> v]) : p \in Ports, v \in Values16}
    \cup {Call("ITMWrite32", [port |-> p, value |-> v]) : p \in Ports, v \in Values32}
    \cup {Call("ITMWriteBuffer", [port |-> p, buffer |-> b, size |-> Len(b)]) :
             p \in Ports, b \in Buffers}

ITMOptions(id, gts, lts, ts, dwt, sync, ports) ==
    [TraceBusID |-> id, GlobalTimestampFrequency |-> gts, LocalTimestampPrescaler |-> lts,
     EnableLocalTimestamp |-> ts, ForwardDWT |-> dwt, EnableSyncPacket |-> sync,
     EnabledStimulusPorts |-> ports]

\* the contents of ITM_TCR and ITM_TER a call may find: the reset state, what
\* ITMSetup leaves, and what a debugger or other code has written
TcrStates ==
    {{}, Bit32 \ ITM_TCR_ITMENA_Msk,
     ITMControlWord(ITMOptions(1, 0, 0, FALSE, TRUE, TRUE, AllOnes))}

TerStates == {{}, {5}, AllOnes, AllOnes \ {5}}

ItmRegStates ==
    {[ResetRegs EXCEPT !["ITM_TCR"] = tcr, !["ITM_TER"] = ter] :
        tcr \in TcrStates, ter \in TerStates}

InitCommon ==
    /\ pc = "idle"
    /\ cur = NoCall
    /\ ret = <<>>
    /\ log = <<>>
    /\ lastAccess = NoAccess
    /\ reg0 = reg
    /\ done = <<>>

----------------------------------------------------------------------------
(* The stimulus-port writer: one write call on any register content, with  *)
(* the FIFO of every port ready or full.                                   *)

InitWriter ==
    /\ reg \in ItmRegStates
    /\ fifoReady \in [Ports -> BOOLEAN]
    /\ plan \in {<<c>> : c \in WriteCalls}
    /\ InitCommon

WriterStep ==
    \/ ITMWrite8
    \/ ITMWrite16
    \/ ITMWrite32
    \/ ITMWriteBuffer
    \/ PollStatus
    \/ StoreScalar
    \/ StoreChunk

NextWriter == WriterStep \/ FifoDrain

SpecWriter == InitWriter /\ [][NextWriter]_vars

----------------------------------------------------------------------------
(* The writer under a processor that keeps executing: the running call     *)
(* takes its next step eventually.  Nothing is assumed of the FIFO: it may *)
(* stay full for ever.  One buffer per size.                               *)

LiveBuffers == {[i \in 1..n |-> IF i % 2 = 1 THEN 18 ELSE 239] : n \in 0..MaxSize}

LiveCalls ==
    {Call("ITMWrite8", [port |-> p, value |-> U32(88)]) : p \in Ports}
    \cup {Call("ITMWrite16", [port |-> p, value |-> U32(48879)]) : p \in Ports}
    \cup {Call("ITMWrite32", [port |-> p, value |-> Word4(222, 173, 190, 239)]) : p \in Ports}
    \cup {Call("ITMWriteBuffer", [port |-> p, buffer |-> b, size |-> Len(b)]) :
             p \in Ports, b \in LiveBuffers}

InitLive ==
    /\ reg \in {[ResetRegs EXCEPT !["ITM_TCR"] = ITM_TCR_ITMENA_Msk, !["ITM_TER"] = ter] :
                   ter \in {AllOnes, AllOnes \ {5}}}
    /\ fifoReady \in [Ports -> BOOLEAN]
    /\ plan \in {<<c>> : c \in LiveCalls}
    /\ InitCommon

SpecLive == InitLive /\ [][NextWriter]_vars /\ WF_vars(WriterStep)

----------------------------------------------------------------------------
(* The port query: ITMIsPortEnabled on every port and register content.    *)

QueryTcrStates == TcrStates \cup {ITM_TCR_ITMENA_Msk, {ITM_TCR_TSENA_Pos, ITM_TCR_TraceBusID_Pos}}

QueryTerStates == TerStates \cup {{0}, {31}, {0, 31}, {1, 6}, AllOnes \ {0, 31}}

InitQuery ==
    /\ reg \in {[ResetRegs EXCEPT !["ITM_TCR"] = tcr, !["ITM_TER"] = ter] :
                   tcr \in QueryTcrStates, ter \in QueryTerStates}
    /\ fifoReady \in {[p \in Ports |-> TRUE], [p \in Ports |-> FALSE]}
    /\ plan \in {<<Call("ITMIsPortEnabled", [port |-> p])>> : p \in Bit32}
    /\ InitCommon

NextQuery == ITMIsPortEnabledCall

SpecQuery == InitQuery /\ [][NextQuery]_vars

----------------------------------------------------------------------------
(* Configuration: one or two setup calls on any register content.          *)

DWTOptions(fold, lsu, sleep, exc, cpi, trace, pc_, sync, cyc, presc) ==
    [FoldedInstructionCounterEvent |-> fold, LSUCounterEvent |-> lsu, SleepCounterEvent |-> sleep,
     ExceptionOverheadCounterEvent |-> exc, CPICounterEvent |-> cpi, ExceptionTrace |-> trace,
     PCSampling |-> pc_, SyncTap |-> sync, CycleTap |-> cyc, SamplingPrescaler |-> presc]

TpiuOptions(protocol, formatting, prescaler, width) ==
    [Protocol |-> protocol, FormattingEnabled |-> formatting, SwoPrescaler |-> prescaler,
     TracePortWidth |-> width]

\* every value of the enumerations, every combination of the flags
AllDWTOptions ==
    {DWTOptions(f[1], f[2], f[3], f[4], f[5], f[6], f[7], sync, cyc, presc) :
        f \in [1..7 -> BOOLEAN], sync \in 0..3, cyc \in 0..1, presc \in 1..16}

\* 7-bit trace IDs, and two values that do not fit the 7-bit field
TraceBusIDs == {0, 1, 85, 127, 128, 255}

StimulusPortMasks == {{}, {5}, AllOnes \ {5}, AllOnes}

AllITMOptions ==
    {ITMOptions(id, gts, lts, f[1], f[2], f[3], ports) :
        id \in TraceBusIDs, gts \in 0..3, lts \in 0..3, f \in [1..3 -> BOOLEAN],
        ports \in StimulusPortMasks}

SwoPrescalers == {1, 2, 100}

AllTpiuOptions ==
    {TpiuOptions(protocol, formatting, prescaler, width) :
        protocol \in 0..2, formatting \in BOOLEAN, prescaler \in SwoPrescalers, width \in 1..32}

\* the option records of the two-call plans
SomeDWTOptions ==
    {DWTOptions(FALSE, FALSE, FALSE, FALSE, FALSE, FALSE, FALSE, 0, 0, 1),
     DWTOptions(TRUE, TRUE, TRUE, TRUE, TRUE, TRUE, TRUE, 3, 1, 16),
     DWTOptions(FALSE, TRUE, FALSE, FALSE, FALSE, TRUE, TRUE, 1, 0, 4),
     DWTOptions(TRUE, FALSE, FALSE, TRUE, FALSE, FALSE, FALSE, 2, 1, 9)}

SomeITMOptions ==
    {ITMOptions(0, 0, 0, FALSE, FALSE, FALSE, {}),
     ITMOptions(127, 3, 3, TRUE, TRUE, TRUE, AllOnes),
     ITMOptions(1, 1, 0, FALSE, TRUE, FALSE, {5}),
     ITMOptions(85, 0, 2, TRUE, FALSE, TRUE, AllOnes \ {5})}

SomeTpiuOptions ==
    {TpiuOptions(0, TRUE, 1, 4),
     TpiuOptions(0, FALSE, 1, 1),
     TpiuOptions(1, FALSE, 2, 1),
     TpiuOptions(2, TRUE, 100, 32)}

SetupCalls(tpiu, itm, dwt) ==
    {Call("TpiuSetup", o) : o \in tpiu}
    \cup {Call("ITMSetup", o) : o \in itm}
    \cup {Call("DWTSetup", o) : o \in dwt}

\* the registers a setup call may find: all clear, or all set
SetupRegStates == {ResetRegs, [r \in RegNames |-> AllOnes]}

InitSetup ==
    /\ reg \in SetupRegStates
    /\ fifoReady = [p \in Ports |-> TRUE]
    /\ plan \in {<<c>> : c \in SetupCalls(AllTpiuOptions, AllITMOptions, AllDWTOptions)}
            \cup {<<c1, c2>> : c1 \in SetupCalls(SomeTpiuOptions, SomeITMOptions, SomeDWTOptions),
                               c2 \in SetupCalls(SomeTpiuOptions, SomeITMOptions, SomeDWTOptions)}
    /\ InitCommon

NextSetup == TpiuSetup \/ ITMSetup \/ DWTSetup

SpecSetup == InitSetup /\ [][NextSetup]_vars

----------------------------------------------------------------------------
(* Watchpoint comparators: an enable, a disable, or an enable and then a   *)
(* disable, on implemented and unimplemented comparator numbers.           *)

\* every uint8_t comparator number; 0..3 are the cases of the switch
ComparatorNumbers == 0..255

\* the comparator numbers of the two-call plans
SomeComparatorNumbers == {0, 1, 2, 3, 4, 7, 255}

\* 0x20000000, 0 and 0xFFFFFFFF
WatchAddresses == {Shl(U32(1), 29), {}, AllOnes}

IgnoreBitCounts == {0, 2, 31}

\* function codes; 21 = 0x15 does not fit the 4-bit field
ComparatorFunctions == {0, 5, 15, 21}

EnableCalls(numbers) ==
    {Call("DWTEnableComparator",
          [comparator |-> c, address |-> a, ignoreBits |-> m, emitRange |-> e, function |-> f]) :
        c \in numbers, a \in WatchAddresses, m \in IgnoreBitCounts,
        e \in BOOLEAN, f \in ComparatorFunctions}

DisableCalls(numbers) == {Call("DWTDisableComparator", [comparator |-> c]) : c \in numbers}

InitComparators ==
    /\ reg \in SetupRegStates
    /\ fifoReady = [p \in Ports |-> TRUE]
    /\ plan \in {<<c>> : c \in EnableCalls(ComparatorNumbers) \cup DisableCalls(ComparatorNumbers)}
            \cup {<<e, d>> : e \in EnableCalls(SomeComparatorNumbers),
                             d \in DisableCalls(SomeComparatorNumbers)}
    /\ InitCommon

NextComparators == DWTEnableComparator \/ DWTDisableComparator

SpecComparators == InitComparators /\ [][NextComparators]_vars

----------------------------------------------------------------------------
(* The library as a whole: up to three calls of any of its functions, one  *)
(* after the other, on any content of the debug control register.          *)

\* longest sequence of library calls
MaxCalls == 3

\* DEMCR as a call may find it: clear, the latch alone, other bits alone
\* (VC_CORERESET, MON_EN), other bits and the latch
DemcrStates == {{}, {24}, {0, 16}, {0, 16, 24}}

LibraryCalls ==
    SetupCalls({TpiuOptions(2, TRUE, 100, 1)},
               {ITMOptions(1, 0, 0, FALSE, TRUE, TRUE, AllOnes)},
               {DWTOptions(FALSE, FALSE, FALSE, FALSE, FALSE, TRUE, TRUE, 1, 0, 4)})
    \cup {Call("DWTEnableComparator",
               [comparator |-> c, address |-> Shl(U32(1), 29), ignoreBits |-> 2,
                emitRange |-> FALSE, function |-> 5]) : c \in {1, 7}}
    \cup DisableCalls({1})
    \cup {Call("ITMIsPortEnabled", [port |-> 5]),
          Call("ITMWrite8", [port |-> 5, value |-> U32(88)]),
          Call("ITMWrite16", [port |-> 5, value |-> U32(48879)]),
          Call("ITMWrite32", [port |-> 5, value |-> Word4(222, 173, 190, 239)]),
          Call("ITMWriteBuffer", [port |-> 5, buffer |-> <<18, 239, 18>>, size |-> 3])}

InitLibrary ==
    /\ reg \in {[ResetRegs EXCEPT !["DEMCR"] = d] : d \in DemcrStates}
    /\ fifoReady = [p \in Ports |-> TRUE]
    /\ plan \in UNION {SeqsOfLength(LibraryCalls, n) : n \in 1..MaxCalls}
    /\ InitCommon

NextLibrary == NextSetup \/ NextComparators \/ NextQuery \/ NextWriter

SpecLibrary == InitLibrary /\ [][NextLibrary]_vars

----------------------------------------------------------------------------
(* Properties *)

\* the registers as call number i of done left them (no call is running)
RegsAfter(i) == IF i < Len(done) THEN done[i + 1].before ELSE reg

\* unit enabled and port enabled, read off the register bits
PortEnabledIn(rg, port) == (0 \in rg["ITM_TCR"]) /\ (port \in rg["ITM_TER"])

WriteFns == {"ITMWrite8", "ITMWrite16", "ITMWrite32", "ITMWriteBuffer"}

ScalarFns == {"ITMWrite8", "ITMWrite16", "ITMWrite32"}

\* C1: after ITMSetup(options) returns, the port-enable register ITM_TER
\* equals options.EnabledStimulusPorts, bit for bit, whatever it held before.
\* ITMSetup stores 0xFFFFFFFF instead, so this fails for every other mask.
C1_PortEnableEqualsOptionsMask ==
    \A i \in 1..Len(done) :
        done[i].fn = "ITMSetup" =>
            RegsAfter(i)["ITM_TER"] = done[i].args.EnabledStimulusPorts

\* C2: a write call (ITMWrite8/16/32, ITMWriteBuffer) that finds its port
\* disabled returns at once: it never enters the busy-wait, reads no port
\* status, writes no port data and leaves every register as it found it.
C2_DisabledWriteIsNoOp ==
    /\ pc # "idle" => PortEnabledIn(reg0, cur.port)
    /\ \A i \in 1..Len(done) :
          (done[i].fn \in WriteFns /\ ~PortEnabledIn(done[i].before, done[i].args.port)) =>
              /\ RegsAfter(i) = done[i].before
              /\ log = <<>>
              /\ lastAccess = NoAccess

\* ITMWrite8(5, 'X') has returned from a disabled port 5 of the enabled
\* unit, whose FIFO was full
C2_Witness ==
    /\ pc = "idle"
    /\ done # <<>>
    /\ done[1].fn = "ITMWrite8"
    /\ done[1].args = [port |-> 5, value |-> U32(88)]
    /\ 0 \in done[1].before["ITM_TCR"]
    /\ 5 \notin done[1].before["ITM_TER"]
    /\ ~fifoReady[5]

\* C6: ITMIsPortEnabled(port) returns true exactly when bit 0 (ITMENA) of
\* ITM_TCR and bit `port` of ITM_TER are both set, for every port 0..31, and
\* it changes no register and writes no data.
C6_IsPortEnabledIffBothBits ==
    \A i \in 1..Len(done) :
        done[i].fn = "ITMIsPortEnabled" =>
            /\ ret = <<PortEnabledIn(done[i].before, done[i].args.port)>>
            /\ RegsAfter(i) = done[i].before
            /\ log = <<>>

\* the query of port 31 returned true with only ports 0 and 31 enabled
C6_Witness ==
    /\ done # <<>>
    /\ done[1].fn = "ITMIsPortEnabled"
    /\ done[1].args.port = 31
    /\ done[1].before["ITM_TER"] = {0, 31}
    /\ ret = <<TRUE>>

\* the chunk widths the packing law gives a buffer of n bytes
ExpectedWidths(n) ==
    [i \in 1..(n \div 4) |-> 32]
        \o (IF n % 4 >= 2 THEN <<16>> ELSE <<>>)
        \o (IF n % 2 = 1 THEN <<8>> ELSE <<>>)

\* the bytes of a data write in the order the port transmits them, least
\* significant first
ChunkBytes(e) == [k \in 1..(e.width \div 8) |-> ByteOf(e.value, k - 1)]

RECURSIVE EmittedBytes(_)
EmittedBytes(l) ==
    IF l = <<>> THEN <<>> ELSE ChunkBytes(Head(l)) \o EmittedBytes(Tail(l))

WidthsOf(l) == [k \in 1..Len(l) |-> l[k].width]

IsPrefix(a, b) == Len(a) <= Len(b) /\ a = SubSeq(b, 1, Len(a))

\* C3: the data writes of ITMWriteBuffer(port, buffer, n) on an enabled port
\* are floor(n/4) 32-bit writes, then a 16-bit write iff n mod 4 >= 2, then
\* an 8-bit write iff n is odd, all to that port, and their bytes in
\* emission order are the buffer (n = 0: no write).  While the call runs,
\* what it has emitted is a prefix of both.
C3_BufferPackingLaw ==
    /\ \A i \in 1..Len(done) :
          (done[i].fn = "ITMWriteBuffer" /\ PortEnabledIn(done[i].before, done[i].args.port)) =>
              /\ WidthsOf(log) = ExpectedWidths(done[i].args.size)
              /\ EmittedBytes(log) = done[i].args.buffer
              /\ \A k \in 1..Len(log) : log[k].port = done[i].args.port
    /\ (pc # "idle" /\ cur.fn = "ITMWriteBuffer") =>
          /\ IsPrefix(WidthsOf(log), ExpectedWidths(Len(cur.buf)))
          /\ IsPrefix(EmittedBytes(log), cur.buf)
          /\ Len(EmittedBytes(log)) = cur.off
          /\ cur.off + cur.size = Len(cur.buf)

\* a 7-byte buffer went out on port 31 as a 32-bit, a 16-bit and an 8-bit write
C3_Witness ==
    /\ pc = "idle"
    /\ done # <<>>
    /\ done[1].fn = "ITMWriteBuffer"
    /\ done[1].args.port = 31
    /\ done[1].args.buffer = <<18, 239, 239, 18, 239, 18, 18>>
    /\ WidthsOf(log) = <<32, 16, 8>>

WidthOfFn(fn) ==
    CASE fn = "ITMWrite8" -> 8 [] fn = "ITMWrite16" -> 16 [] fn = "ITMWrite32" -> 32

\* C4: every data write to a port register comes directly after a status
\* read of the same port that returned non-zero (the call's latest port
\* access is that read, never a zero read and never another write), it is
\* the only thing the step adds to the log, and a scalar call on an enabled
\* port returns having made exactly one data write, of its width and value.
C4_HandshakeBeforeEveryWrite ==
    [][ /\ (log' # log) =>
              /\ pc = "store"
              /\ lastAccess.kind = "read"
              /\ lastAccess.value # {}
              /\ lastAccess.port = cur.port
              /\ Len(log') = Len(log) + 1
              /\ SubSeq(log', 1, Len(log)) = log
              /\ log'[Len(log')].port = lastAccess.port
              /\ log'[Len(log')].width = cur.loop
        /\ (done' # done /\ pc = "store" /\ cur.fn \in ScalarFns) =>
              log' = << [port |-> Head(plan).args.port,
                         width |-> WidthOfFn(Head(plan).fn),
                         value |-> Head(plan).args.value] >>
        /\ (pc' # "idle" /\ cur'.fn \in ScalarFns) => log' = <<>>
      ]_vars

\* ITMWrite16(31, 0xBEEF) has returned after its one 16-bit write
C4_Witness ==
    /\ pc = "idle"
    /\ done # <<>>
    /\ done[1].fn = "ITMWrite16"
    /\ log = << [port |-> 31, width |-> 16, value |-> U32(48879)] >>
    /\ lastAccess.kind = "write"

\* the FIFO of every port has room again and again
FifoEventuallyReady == \A p \in Ports : []<>fifoReady[p]

\* C5: a write call leaves its busy-wait only by a status read that returned
\* non-zero; while the status of its port is zero it stays in the wait,
\* writes nothing and does not return, so with a FIFO that stays full it
\* waits for ever; and if the FIFO has room again and again, every write call
\* (scalar, or a buffer of any size) returns.
C5_ReturnsIffFifoReady ==
    /\ [][ /\ (pc = "poll" /\ pc' # "poll") =>
                 /\ pc' = "store"
                 /\ fifoReady[cur.port]
                 /\ lastAccess' = [kind |-> "read", port |-> cur.port, value |-> U32(1)]
           /\ (pc = "poll" /\ ~fifoReady[cur.port]) =>
                 (pc' = "poll" /\ cur' = cur /\ log' = log /\ done' = done)
         ]_vars
    /\ \A p \in Ports :
          []((pc = "poll" /\ cur.port = p /\ []~fifoReady[p]) => [](pc = "poll"))
    /\ FifoEventuallyReady => [](plan # <<>> => <>(plan = <<>> /\ pc = "idle"))

\* ITMWriteBuffer wrote its first chunk, found the FIFO full and is waiting
C5_Witness ==
    /\ pc = "poll"
    /\ cur.fn = "ITMWriteBuffer"
    /\ Len(log) = 1
    /\ lastAccess.kind = "read"
    /\ lastAccess.value = {}
    /\ ~fifoReady[cur.port]

SetupFns == {"TpiuSetup", "ITMSetup", "DWTSetup"}

\* the register accesses of a setup call alone
SetupAccessesOf(c) ==
    CASE c.fn = "TpiuSetup" -> TpiuSetupAccesses(c.args)
      [] c.fn = "ITMSetup"  -> ITMSetupAccesses(c.args)
      [] c.fn = "DWTSetup"  -> DWTSetupAccesses(c.args)

\* C7: configure(o1) and then configure(o2) on one unit leave the registers
\* as configure(o2) alone leaves them from the state before the first call:
\* nothing the first call wrote survives the second.
C7_FullOverwrite ==
    (Len(done) = 2 /\ done[1].fn \in SetupFns /\ done[2].fn = done[1].fn) =>
        reg = ApplyAccesses(done[1].before, SetupAccessesOf(done[2]))

\* DWTSetup with every flag set, then DWTSetup with every flag clear, from
\* the reset state: only CYCCNTENA is left in DWT_CTRL
C7_Witness ==
    /\ Len(done) = 2
    /\ done[1].fn = "DWTSetup"
    /\ done[2].fn = "DWTSetup"
    /\ done[1].before = ResetRegs
    /\ done[1].args = DWTOptions(TRUE, TRUE, TRUE, TRUE, TRUE, TRUE, TRUE, 3, 1, 16)
    /\ done[2].args = DWTOptions(FALSE, FALSE, FALSE, FALSE, FALSE, FALSE, FALSE, 0, 0, 1)
    /\ done[2].before["DWT_CTRL"] # reg["DWT_CTRL"]
    /\ reg["DWT_CTRL"] = {0}

\* the registers of comparator slot i, named one by one
SlotAddress(i) == <<"DWT_COMP0", "DWT_COMP1", "DWT_COMP2", "DWT_COMP3">>[i + 1]

SlotIgnoreBits(i) == <<"DWT_MASK0", "DWT_MASK1", "DWT_MASK2", "DWT_MASK3">>[i + 1]

SlotFunction(i) == <<"DWT_FUNCTION0", "DWT_FUNCTION1", "DWT_FUNCTION2", "DWT_FUNCTION3">>[i + 1]

ComparatorFns == {"DWTEnableComparator", "DWTDisableComparator"}

\* C8: after DWTEnableComparator(i, address, ignoreBits, ...) and then
\* DWTDisableComparator(i), i in 0..3, the function register of slot i reads
\* 0, its address register reads address and its mask register reads
\* ignoreBits; the disable changed the function register of slot i only.
C8_EnableDisableRoundTrip ==
    (/\ Len(done) = 2
     /\ done[1].fn = "DWTEnableComparator"
     /\ done[2].fn = "DWTDisableComparator"
     /\ done[1].args.comparator \in 0..3
     /\ done[2].args.comparator = done[1].args.comparator) =>
        LET i == done[1].args.comparator
        IN  /\ reg[SlotFunction(i)] = {}
            /\ reg[SlotAddress(i)] = done[1].args.address
            /\ reg[SlotIgnoreBits(i)] = U32(done[1].args.ignoreBits)
            /\ \A r \in RegNames \ {SlotFunction(i)} : reg[r] = done[2].before[r]

\* comparator 1 enabled on 0x20000000 with 2 ignored bits, then disabled
C8_Witness ==
    /\ Len(done) = 2
    /\ done[1].fn = "DWTEnableComparator"
    /\ done[1].args = [comparator |-> 1, address |-> {29}, ignoreBits |-> 2,
                       emitRange |-> TRUE, function |-> 5]
    /\ done[2].fn = "DWTDisableComparator"
    /\ done[2].args.comparator = 1
    /\ done[2].before["DWT_FUNCTION1"] = {0, 2, 5}
    /\ reg["DWT_FUNCTION1"] = {}
    /\ reg["DWT_COMP1"] = {29}
    /\ reg["DWT_MASK1"] = {1}

\* C9: DWTEnableComparator and DWTDisableComparator with a comparator number
\* outside 0..3 (4..255) return having changed no register at all.
C9_OutOfRangeIsNoOp ==
    \A i \in 1..Len(done) :
        (done[i].fn \in ComparatorFns /\ done[i].args.comparator \notin 0..3) =>
            /\ RegsAfter(i) = done[i].before
            /\ log = <<>>

\* an enable of comparator 7 and a disable of comparator 4 have returned,
\* with every comparator register still set
C9_Witness ==
    /\ Len(done) = 2
    /\ done[1].fn = "DWTEnableComparator"
    /\ done[1].args.comparator = 7
    /\ done[1].args.address = {}
    /\ done[2].fn = "DWTDisableComparator"
    /\ done[2].args.comparator = 4
    /\ \A r \in ComparatorRegNames : reg[r] = AllOnes

\* the n-bit field of w at position pos, as a word
Field(w, pos, n) == {i - pos : i \in (w \cap (pos..(pos + n - 1)))}

BitIs(w, pos, flag) == (pos \in w) <=> flag

\* C10: the control word configure writes holds each boolean flag at its own
\* bit (set iff the flag is true), each selector, prescaler and trace-ID
\* field reads back the value given, the fixed enable bit (bit 0) is set and
\* no other bit is: for DWT_CTRL under DWTSetup and ITM_TCR under ITMSetup,
\* for every combination of the flags and every enumerated field value.  The
\* trace ID lands in bits 16 and up (bits 16..22 for a 7-bit ID) and never
\* reaches a flag or another field.
C10_IndependentFlagEncoding ==
    \A i \in 1..Len(done) :
        /\ done[i].fn = "DWTSetup" =>
              LET w == RegsAfter(i)["DWT_CTRL"]
                  o == done[i].args
              IN  /\ BitIs(w, DWT_CTRL_FOLDEVTENA_Pos, o.FoldedInstructionCounterEvent)
                  /\ BitIs(w, DWT_CTRL_LSUEVTENA_Pos, o.LSUCounterEvent)
                  /\ BitIs(w, DWT_CTRL_SLEEPEVTENA_Pos, o.SleepCounterEvent)
                  /\ BitIs(w, DWT_CTRL_EXCEVTENA_Pos, o.ExceptionOverheadCounterEvent)
                  /\ BitIs(w, DWT_CTRL_CPIEVTENA_Pos, o.CPICounterEvent)
                  /\ BitIs(w, DWT_CTRL_EXCTRCENA_Pos, o.ExceptionTrace)
                  /\ BitIs(w, DWT_CTRL_PCSAMPLENA_Pos, o.PCSampling)
                  /\ Field(w, DWT_CTRL_SYNCTAP_Pos, 2) = U32(o.SyncTap)
                  /\ Field(w, DWT_CTRL_CYCTAP_Pos, 1) = U32(o.CycleTap)
                  /\ Field(w, DWT_CTRL_POSTPRESET_Pos, 4) = U32(o.SamplingPrescaler - 1)
                  /\ DWT_CTRL_CYCCNTENA_Pos \in w
                  /\ w \subseteq {0} \cup (1..4) \cup {9} \cup (10..11) \cup {12} \cup (16..21)
        /\ done[i].fn = "ITMSetup" =>
              LET w == RegsAfter(i)["ITM_TCR"]
                  o == done[i].args
              IN  /\ BitIs(w, ITM_TCR_DWTENA_Pos, o.ForwardDWT)
                  /\ BitIs(w, ITM_TCR_SYNCENA_Pos, o.EnableSyncPacket)
                  /\ BitIs(w, ITM_TCR_TSENA_Pos, o.EnableLocalTimestamp)
                  /\ Field(w, ITM_TCR_TSPrescale_Pos, 2) = U32(o.LocalTimestampPrescaler)
                  /\ Field(w, ITM_TCR_GTSFREQ_Pos, 2) = U32(o.GlobalTimestampFrequency)
                  /\ Field(w, ITM_TCR_TraceBusID_Pos, 16) = U32(o.TraceBusID)
                  /\ o.TraceBusID \in 0..127 => w \cap (23..31) = {}
                  /\ ITM_TCR_ITMENA_Pos \in w
                  /\ w \subseteq (0..3) \cup (8..9) \cup (10..11) \cup (16..31)

\* DWTSetup with the folded-instruction, sleep, CPI and PC-sampling flags set
\* and the load/store, exception-overhead and exception-trace flags clear
C10_Witness ==
    /\ Len(done) = 1
    /\ done[1].fn = "DWTSetup"
    /\ done[1].args = DWTOptions(TRUE, FALSE, TRUE, FALSE, TRUE, FALSE, TRUE, 3, 1, 16)
    /\ done[1].before["DWT_CTRL"] = AllOnes
    /\ reg["DWT_CTRL"] = {0, 1, 2, 3, 4, 9, 10, 11, 12, 17, 19, 21}

\* the 4-bit POSTPRESET field of DWT_CTRL, bits 1..4
PrescalerFieldBits == 1..4

\* C11: for every sampling prescaler p in 1..16 given to DWTSetup, the 4-bit
\* prescaler field (bits 1..4) of the control word written to DWT_CTRL holds
\* p - 1, a value 0..15, and outside that field the control word is the one
\* the same options with prescaler 1 give: the prescaler reaches no other bit.
C11_PrescalerFieldIsMinusOne ==
    \A i \in 1..Len(done) :
        (done[i].fn = "DWTSetup" /\ done[i].args.SamplingPrescaler \in 1..16) =>
            LET w == RegsAfter(i)["DWT_CTRL"]
                o == done[i].args
                base == DWTControlWord([o EXCEPT !.SamplingPrescaler = 1])
            IN  /\ ByteOf(Field(w, 1, 4), 0) = o.SamplingPrescaler - 1
                /\ ByteOf(Field(w, 1, 4), 0) \in 0..15
                /\ w \ PrescalerFieldBits = base \ PrescalerFieldBits

\* DWTSetup with prescaler 16 and nothing else selected wrote 0x1F: the field
\* holds 15 and bit 5 stays clear
C11_Witness ==
    /\ Len(done) = 1
    /\ done[1].fn = "DWTSetup"
    /\ done[1].args = DWTOptions(FALSE, FALSE, FALSE, FALSE, FALSE, FALSE, FALSE, 0, 0, 16)
    /\ done[1].before["DWT_CTRL"] = AllOnes
    /\ reg["DWT_CTRL"] = {0, 1, 2, 3, 4}

\* the number a word without bit 31 holds
WordValue(w) ==
    ByteOf(w, 0) + 256 * ByteOf(w, 1) + 65536 * ByteOf(w, 2) + 16777216 * ByteOf(w, 3)

\* C12: after TpiuSetup(options), TPI_ACPR holds SwoPrescaler - 1, TPI_SPPR
\* holds the protocol selector (0 parallel, 1 Manchester, 2 UART) and
\* TPI_CSPSR has exactly one bit set, bit TracePortWidth - 1, for every
\* width 1..32, whatever the three registers held before.
C12_TpiuRegisterEncoding ==
    \A i \in 1..Len(done) :
        (done[i].fn = "TpiuSetup" /\ done[i].args.TracePortWidth \in 1..32) =>
            LET rg == RegsAfter(i)
                o == done[i].args
            IN  /\ 31 \notin rg["TPI_ACPR"]
                /\ WordValue(rg["TPI_ACPR"]) = o.SwoPrescaler - 1
                /\ 31 \notin rg["TPI_SPPR"]
                /\ WordValue(rg["TPI_SPPR"]) = o.Protocol
                /\ o.Protocol \in {0, 1, 2}
                /\ Cardinality(rg["TPI_CSPSR"]) = 1
                /\ rg["TPI_CSPSR"] = {o.TracePortWidth - 1}

\* TpiuSetup for UART at prescaler 100 and a 32-bit port, on registers that
\* were all set: 99, 2 and bit 31 alone
C12_Witness ==
    /\ Len(done) = 1
    /\ done[1].fn = "TpiuSetup"
    /\ done[1].args = TpiuOptions(2, TRUE, 100, 32)
    /\ done[1].before["TPI_CSPSR"] = AllOnes
    /\ reg["TPI_ACPR"] = U32(99)
    /\ reg["TPI_SPPR"] = {1}
    /\ reg["TPI_CSPSR"] = {31}

\* C13: TpiuSetup reads, modifies and writes TPI_FFCR: after the call the
\* formatting-enable bit EnFCont (bit 1) is set iff options.FormattingEnabled,
\* whatever it was before, and every other bit of TPI_FFCR is as the call
\* found it.
C13_FramingControlReadModifyWrite ==
    \A i \in 1..Len(done) :
        done[i].fn = "TpiuSetup" =>
            LET after == RegsAfter(i)["TPI_FFCR"]
                before == done[i].before["TPI_FFCR"]
            IN  /\ (TPI_FFCR_EnFCont_Pos \in after) <=> done[i].args.FormattingEnabled
                /\ after \ {TPI_FFCR_EnFCont_Pos} = before \ {TPI_FFCR_EnFCont_Pos}

\* TpiuSetup without formatting found TPI_FFCR all set and cleared bit 1
\* alone; a second TpiuSetup with formatting set it again
C13_Witness ==
    /\ Len(done) = 2
    /\ done[1].fn = "TpiuSetup"
    /\ done[2].fn = "TpiuSetup"
    /\ ~done[1].args.FormattingEnabled
    /\ done[2].args.FormattingEnabled
    /\ done[1].before["TPI_FFCR"] = AllOnes
    /\ done[2].before["TPI_FFCR"] = AllOnes \ {1}
    /\ reg["TPI_FFCR"] = AllOnes

\* C14: TpiuSetup, ITMSetup and DWTSetup each set TRCENA (bit 24) of DEMCR
\* and change no other bit of it; on a DEMCR with the latch set they leave the
\* register as it is; no function of the library changes any other bit or
\* clears the latch, so after any setup call has returned the latch is set
\* in every later state, whatever calls follow.
C14_TraceEnableLatch ==
    /\ [][ /\ reg'["DEMCR"] \ {24} = reg["DEMCR"] \ {24}
           /\ (24 \in reg["DEMCR"]) => (reg'["DEMCR"] = reg["DEMCR"])
           /\ (done' # done /\ Head(plan).fn \in SetupFns) => (24 \in reg'["DEMCR"])
           /\ (done' # done /\ Head(plan).fn \notin SetupFns) => (reg'["DEMCR"] = reg["DEMCR"])
         ]_vars
    /\ []((\E i \in 1..Len(done) : done[i].fn \in SetupFns) => (24 \in reg["DEMCR"]))

\* DWTSetup set the latch next to the bits it found, DWTDisableComparator
\* and a completed ITMWriteBuffer followed, and the latch is still set
C14_Witness ==
    /\ Len(done) = 3
    /\ done[1].fn = "DWTSetup"
    /\ done[1].before["DEMCR"] = {0, 16}
    /\ done[2].fn = "DWTDisableComparator"
    /\ done[3].fn = "ITMWriteBuffer"
    /\ reg["DEMCR"] = {0, 16, 24}

----------------------------------------------------------------------------
(* Setup calls at the granularity of the bus: a call performs its register *)
(* accesses one at a time, and a read-modify-write is a load and a store.  *)
(* While a setup call runs,                                                *)
(*   pc       "access" before an access, "modify" between the load and the *)
(*            store of a read-modify-write                                 *)
(*   cur.buf  the accesses of the call, cur.off how many are complete,     *)
(*            cur.v the word the load returned                             *)
(*   log      the loads and stores of the call, in order                   *)

\* the registers of a unit that accept a store only when the trace-enable
\* latch is set and, for ITM and DWT, the unit is unlocked
GatedBy(r) ==
    CASE r \in {"ITM_TCR", "ITM_TER"} -> <<"ITM_LAR">>
      [] r \in {"DWT_CTRL"} \cup ComparatorRegNames -> <<"DWT_LAR">>
      [] r \in TpiuRegNames -> << >>
      [] OTHER -> << >>

\* the hardware takes a store to r: DEMCR and the lock-access registers
\* always, a gated register once the latch is set and its unit unlocked
Writable(rg, r) ==
    \/ r \in {"DEMCR", "ITM_LAR", "DWT_LAR"}
    \/ /\ CoreDebug_DEMCR_TRCENA_Pos \in rg["DEMCR"]
       /\ \A l \in {GatedBy(r)[k] : k \in 1..Len(GatedBy(r))} : rg[l] = LockKey

\* a store on the bus; on gating hardware a store the unit ignores changes nothing
StoreTo(rg, r, w, gating) ==
    IF gating /\ ~Writable(rg, r) THEN rg ELSE [rg EXCEPT ![r] = w]

BusLoad(r, w) == [kind |-> "load", r |-> r, w |-> w]

BusStore(r, w) == [kind |-> "store", r |-> r, w |-> w]

\* entry of TpiuSetup, ITMSetup or DWTSetup
SetupEntry ==
    /\ pc = "idle"
    /\ plan # <<>>
    /\ Head(plan).fn \in SetupFns
    /\ Enter
    /\ pc' = "access"
    /\ cur' = [NoCall EXCEPT !.fn = Head(plan).fn, !.buf = SetupAccessesOf(Head(plan))]
    /\ UNCHANGED <<reg, fifoReady, plan, ret, log, done>>

\* after an access: the next one, or the return
Advance ==
    IF cur.off + 1 = Len(cur.buf)
    THEN Return
    ELSE /\ pc' = "access"
         /\ cur' = [cur EXCEPT !.off = cur.off + 1, !.v = {}]
         /\ UNCHANGED <<plan, done>>

\* the next access of the running call: a plain store, or the load of a
\* read-modify-write
AccessStep(gating) ==
    /\ pc = "access"
    /\ UNCHANGED <<fifoReady, ret, lastAccess, reg0>>
    /\ LET a == cur.buf[cur.off + 1]
       IN  IF a.kind = "write"
           THEN /\ reg' = StoreTo(reg, a.r, a.w, gating)
                /\ log' = Append(log, BusStore(a.r, a.w))
                /\ Advance
           ELSE /\ pc' = "modify"
                /\ cur' = [cur EXCEPT !.v = reg[a.r]]
                /\ log' = Append(log, BusLoad(a.r, reg[a.r]))
                /\ UNCHANGED <<reg, plan, done>>

\* the store of a read-modify-write: the loaded word with the bits set or cleared
ModifyStep(gating) ==
    /\ pc = "modify"
    /\ UNCHANGED <<fifoReady, ret, lastAccess, reg0>>
    /\ LET a == cur.buf[cur.off + 1]
           w == IF a.kind = "orr" THEN Or(cur.v, a.w) ELSE And(cur.v, Not(a.w))
       IN  /\ reg' = StoreTo(reg, a.r, w, gating)
           /\ log' = Append(log, BusStore(a.r, w))
           /\ Advance

----------------------------------------------------------------------------
(* The unlock sequence: one ITMSetup or DWTSetup, access by access, on     *)
(* hardware that ignores stores to a unit's registers until the latch is   *)
(* set and the unit unlocked, from every state of the latch and the locks. *)

GatedAccess == AccessStep(TRUE)

GatedModify == ModifyStep(TRUE)

\* a lock-access register as a call may find it: never written, holding the
\* key, holding something else
LockStates == {{}, LockKey, AllOnes}

InitUnlock ==
    /\ reg \in {[base EXCEPT !["DEMCR"] = d, !["ITM_LAR"] = il, !["DWT_LAR"] = dl] :
                   base \in SetupRegStates, d \in DemcrStates, il \in LockStates, dl \in LockStates}
    /\ fifoReady = [p \in Ports |-> TRUE]
    /\ plan \in {<<c>> : c \in SetupCalls({}, SomeITMOptions, SomeDWTOptions)}
    /\ InitCommon

NextUnlock == SetupEntry \/ GatedAccess \/ GatedModify

SpecUnlock == InitUnlock /\ [][NextUnlock]_vars

\* the stores of the log to register r, as positions
StoresTo(r) == {k \in 1..Len(log) : log[k].kind = "store" /\ log[k].r = r}

\* the control register and the lock-access register of ITM and of DWT
ControlRegOf(fn) == IF fn = "ITMSetup" THEN "ITM_TCR" ELSE "DWT_CTRL"

LockRegOf(fn) == IF fn = "ITMSetup" THEN "ITM_LAR" ELSE "DWT_LAR"

\* C15: ITMSetup and DWTSetup access the bus in this order: the load and
\* the store that set TRCENA in DEMCR, the store of 0xC5ACCE55 to the unit's
\* own lock-access register, one store of the control word to the control
\* register and, in ITMSetup, the store to ITM_TER.  While the call runs, no
\* store to a register of the unit comes before both.  So on hardware that
\* ignores stores to the unit until the latch is set and the unit unlocked,
\* the control register holds the control word of the options when the
\* call returns, whatever the latch and the locks were before.
C15_UnlockBeforeControlWrite ==
    /\ pc # "idle" =>
          \A k \in 1..Len(log) :
              (log[k].kind = "store" /\ log[k].r \notin {"DEMCR", "ITM_LAR", "DWT_LAR"}) =>
                  /\ k >= 4
                  /\ log[1] = BusLoad("DEMCR", reg0["DEMCR"])
                  /\ log[2] = BusStore("DEMCR", reg0["DEMCR"] \cup {24})
                  /\ log[3] = BusStore(LockRegOf(cur.fn), LockKey)
    /\ \A i \in 1..Len(done) :
          done[i].fn \in {"ITMSetup", "DWTSetup"} =>
              LET word == IF done[i].fn = "ITMSetup"
                          THEN ITMControlWord(done[i].args)
                          ELSE DWTControlWord(done[i].args)
              IN  /\ SubSeq(log, 1, 4) =
                        << BusLoad("DEMCR", done[i].before["DEMCR"]),
                           BusStore("DEMCR", done[i].before["DEMCR"] \cup {24}),
                           BusStore(LockRegOf(done[i].fn), LockKey),
                           BusStore(ControlRegOf(done[i].fn), word) >>
                  /\ Cardinality(StoresTo(ControlRegOf(done[i].fn))) = 1
                  /\ IF done[i].fn = "ITMSetup"
                     THEN /\ Len(log) = 5
                          /\ log[5].kind = "store"
                          /\ log[5].r = "ITM_TER"
                          /\ reg["ITM_TER"] = log[5].w
                     ELSE Len(log) = 4
                  /\ reg[ControlRegOf(done[i].fn)] = word
                  /\ reg[LockRegOf(done[i].fn)] = LockKey
                  /\ 24 \in reg["DEMCR"]

\* ITMSetup found the latch clear and ITM locked, with ITM_TCR all set, and
\* returned with its control word in ITM_TCR
C15_Witness ==
    /\ Len(done) = 1
    /\ done[1].fn = "ITMSetup"
    /\ done[1].args = ITMOptions(1, 1, 0, FALSE, TRUE, FALSE, {5})
    /\ done[1].before["DEMCR"] = {0, 16}
    /\ done[1].before["ITM_LAR"] = {}
    /\ done[1].before["ITM_TCR"] = AllOnes
    /\ reg["ITM_TCR"] = {0, 3, 10, 16}
    /\ Len(log) = 5

----------------------------------------------------------------------------
(* Two setup calls on one unit in two contexts: the application's call     *)
(* runs access by access, and an interrupt handler makes its own call      *)
(* between any two bus accesses of it, start to return.  plan holds the    *)
(* application's call and then the handler's; a handler that did not       *)
(* interrupt runs after the application's call has returned.               *)

BusAccess == AccessStep(FALSE)

BusModify == ModifyStep(FALSE)

\* the interrupt: the handler's setup call runs to its return while the
\* application's call is between two of its bus accesses
Interrupt ==
    /\ pc \in {"access", "modify"}
    /\ Len(plan) = 2
    /\ plan[2].fn \in SetupFns
    /\ reg' = ApplyAccesses(reg, SetupAccessesOf(plan[2]))
    /\ plan' = <<plan[1]>>
    /\ done' = Append(done, [fn |-> plan[2].fn, args |-> plan[2].args, before |-> reg])
    /\ UNCHANGED <<fifoReady, pc, cur, ret, log, lastAccess, reg0>>

InitRace ==
    /\ reg \in SetupRegStates
    /\ fifoReady = [p \in Ports |-> TRUE]
    /\ plan \in {<<c1, c2>> : c1 \in SetupCalls(SomeTpiuOptions, {}, {}),
                               c2 \in SetupCalls(SomeTpiuOptions, {}, {})}
            \cup {<<c1, c2>> : c1 \in SetupCalls({}, SomeITMOptions, {}),
                                 c2 \in SetupCalls({}, SomeITMOptions, {})}
            \cup {<<c1, c2>> : c1 \in SetupCalls({}, {}, SomeDWTOptions),
                                 c2 \in SetupCalls({}, {}, SomeDWTOptions)}
    /\ InitCommon

NextRace == SetupEntry \/ BusAccess \/ BusModify \/ Interrupt

SpecRace == InitRace /\ [][NextRace]_vars

\* the configuration registers of the unit a setup function configures
UnitRegs(fn) ==
    CASE fn = "TpiuSetup" -> TpiuRegNames
      [] fn = "ITMSetup"  -> ItmRegNames
      [] fn = "DWTSetup"  -> DwtRegNames

\* the registers as call c leaves them running alone from the registers rg
AloneFrom(rg, c) == ApplyAccesses(rg, SetupAccessesOf(c))

\* both calls have returned; done[2] returned last, and what it found at
\* its entry is what both found when the handler interrupted it
BothReturned ==
    /\ pc = "idle"
    /\ Len(done) = 2
    /\ done[1].fn \in SetupFns
    /\ done[2].fn = done[1].fn

----------------------------------------------------------------------------
(* The writer and a second context: while a write call runs, an interrupt  *)
(* handler or a debugger clears ITMENA in ITM_TCR or the port's bit in     *)
(* ITM_TER.  The unit is enabled when the call starts; its port may not be.*)

\* another context disables the unit or the port of the running write call
DisablePort ==
    /\ pc # "idle"
    /\ \E r \in {"ITM_TCR", "ITM_TER"} :
          LET bit == IF r = "ITM_TCR" THEN ITM_TCR_ITMENA_Pos ELSE cur.port
          IN  /\ bit \in reg[r]
              /\ reg' = [reg EXCEPT ![r] = reg[r] \ {bit}]
    /\ UNCHANGED <<fifoReady, plan, pc, cur, ret, log, lastAccess, reg0, done>>

InitPreempt == InitLive

NextPreempt == NextWriter \/ DisablePort

SpecPreempt == InitPreempt /\ [][NextPreempt]_vars

\* C17: a write call reads the enable bits once, at its entry, and never
\* again.  A call that found its port enabled completes as if nothing had
\* happened when another context clears ITMENA or the port's enable bit
\* afterwards: on the disabled port it stays in the wait while the status
\* reads zero and does not return from it, it leaves the wait only on a
\* non-zero status, and every store it reaches is made; so a scalar call
\* returns having written its value once, and ITMWriteBuffer returns having
\* emitted every chunk of the buffer to that port.
C17_EnableCheckedOnceAtEntry ==
    /\ [](\A i \in 1..Len(done) :
            (done[i].fn \in WriteFns /\ PortEnabledIn(done[i].before, done[i].args.port)) =>
                IF done[i].fn \in ScalarFns
                THEN log = << [port |-> done[i].args.port,
                               width |-> WidthOfFn(done[i].fn),
                               value |-> done[i].args.value] >>
                ELSE /\ WidthsOf(log) = ExpectedWidths(done[i].args.size)
                     /\ EmittedBytes(log) = done[i].args.buffer
                     /\ \A k \in 1..Len(log) : log[k].port = done[i].args.port)
    /\ [][ (pc # "idle" /\ ~PortEnabledIn(reg, cur.port)) =>
              /\ pc = "poll" => (pc' \in {"poll", "store"} /\ done' = done /\ log' = log)
              /\ (pc = "poll" /\ pc' = "store") => fifoReady[cur.port]
              /\ (pc = "store" /\ pc' # "store") =>
                    /\ Len(log') = Len(log) + 1
                    /\ log'[Len(log')].port = cur.port
         ]_vars

\* ITMWriteBuffer of 7 bytes started on the enabled port 5; while it ran,
\* both ITMENA and the enable bit of port 5 were cleared; it returned having
\* made its 32-bit, 16-bit and 8-bit write to port 5
C17_Witness ==
    /\ pc = "idle"
    /\ Len(done) = 1
    /\ done[1].fn = "ITMWriteBuffer"
    /\ done[1].args.port = 5
    /\ done[1].args.size = 7
    /\ PortEnabledIn(done[1].before, 5)
    /\ 0 \notin reg["ITM_TCR"]
    /\ 5 \notin reg["ITM_TER"]
    /\ WidthsOf(log) = <<32, 16, 8>>

====
